---- MODULE Spec2Model ----
(***************************************************************************)
(* Model of src/app.py: the /extract handler (file-type check, provider    *)
(* call, field walk, line-item reconstruction, document acceptance,        *)
(* persistence) and its helpers format_date, amount_format and get_value.  *)
(*                                                                         *)
(* Python values are tagged records so that values of different Python     *)
(* types compare unequal: None, str (a sequence of one-character strings), *)
(* float (an exact decimal num/den, den a power of ten, in lowest form),   *)
(* list, and plain objects.  A dict is a function from keys to values.     *)
(***************************************************************************)
EXTENDS Integers, Sequences, FiniteSets, TLC

\* ---------------------------------------------------------------- bounds
MaxAmountLen == 3
MaxTypes == 2
MaxNodes == 2
MaxPages == 2

\* ---------------------------------------------------------- Python values
None == [t |-> "None"]
Str(s) == [t |-> "str", v |-> s]
Float(n, d) == [t |-> "float", num |-> n, den |-> d]
List(l) == [t |-> "list", v |-> l]
Obj(a) == [t |-> "obj", attrs |-> a]

EmptyDict == [k \in {} |-> None]

\* d[k] = v on a dict
DictSet(d, k, v) == [x \in (DOMAIN d) \cup {k} |-> IF x = k THEN v ELSE d[x]]

\* bool(x)
Truthy(x) ==
  CASE x.t = "None" -> FALSE
    [] x.t = "str" -> Len(x.v) > 0
    [] x.t = "float" -> x.num # 0
    [] x.t = "list" -> Len(x.v) > 0
    [] OTHER -> TRUE

\* outcome of an evaluation that may raise
Ok(v) == [raised |-> FALSE, val |-> v]
Raise(e) == [raised |-> TRUE, exc |-> e]

\* -------------------------------------------------------- string helpers
UpperChars == <<"A","B","C","D","E","F","G","H","I","J","K","L","M",
                "N","O","P","Q","R","S","T","U","V","W","X","Y","Z">>
LowerChars == <<"a","b","c","d","e","f","g","h","i","j","k","l","m",
                "n","o","p","q","r","s","t","u","v","w","x","y","z">>
DigitChars == <<"0","1","2","3","4","5","6","7","8","9">>

LowerChar(c) ==
  IF \E i \in 1..26 : UpperChars[i] = c
  THEN LowerChars[CHOOSE i \in 1..26 : UpperChars[i] = c]
  ELSE c

\* str.lower()
Lower(s) == [i \in 1..Len(s) |-> LowerChar(s[i])]

\* str.endswith(suf)
EndsWith(s, suf) ==
  /\ Len(s) >= Len(suf)
  /\ SubSeq(s, Len(s) - Len(suf) + 1, Len(s)) = suf

RECURSIVE LStrip(_)
LStrip(s) == IF Len(s) > 0 /\ s[1] = " " THEN LStrip(Tail(s)) ELSE s

RECURSIVE RStrip(_)
RStrip(s) ==
  IF Len(s) > 0 /\ s[Len(s)] = " " THEN RStrip(SubSeq(s, 1, Len(s) - 1)) ELSE s

\* str.strip()
Strip(s) == RStrip(LStrip(s))

\* str.replace(c, "")
Remove(s, c) == SelectSeq(s, LAMBDA x : x # c)

IsDigit(c) == \E i \in 1..10 : DigitChars[i] = c
DigitVal(c) == (CHOOSE i \in 1..10 : DigitChars[i] = c) - 1
AllDigits(s) == \A i \in 1..Len(s) : IsDigit(s[i])

RECURSIVE ToInt(_)
ToInt(s) ==
  IF Len(s) = 0 THEN 0
  ELSE 10 * ToInt(SubSeq(s, 1, Len(s) - 1)) + DigitVal(s[Len(s)])

RECURSIVE Pow10(_)
Pow10(n) == IF n = 0 THEN 1 ELSE 10 * Pow10(n - 1)

\* a decimal in lowest form (den the least power of ten)
RECURSIVE Normalize(_, _)
Normalize(n, d) ==
  IF d > 1 /\ n % 10 = 0 THEN Normalize(n \div 10, d \div 10) ELSE Float(n, d)

\* float(s) for s over digits, sign, dot and characters float() rejects.
\* (No exponent, underscore, inf or nan: the input alphabet excludes them.)
ParseFloat(s0) ==
  LET s == Strip(s0)
      signed == Len(s) > 0 /\ s[1] \in {"-", "+"}
      body == IF signed THEN Tail(s) ELSE s
      dots == {i \in 1..Len(body) : body[i] = "."}
      ip == IF dots = {} THEN body
            ELSE SubSeq(body, 1, (CHOOSE i \in dots : TRUE) - 1)
      fp == IF dots = {} THEN <<>>
            ELSE SubSeq(body, (CHOOSE i \in dots : TRUE) + 1, Len(body))
      wellFormed == /\ Cardinality(dots) <= 1
                    /\ AllDigits(ip) /\ AllDigits(fp)
                    /\ Len(ip) + Len(fp) > 0
      mag == ToInt(ip \o fp)
  IN IF ~wellFormed THEN Raise("ValueError")
     ELSE Ok(Normalize(IF signed /\ s[1] = "-" THEN 0 - mag ELSE mag,
                       Pow10(Len(fp))))

\* -------------------------------------------------------------- helpers
MonthAbbr == << <<"j","a","n">>, <<"f","e","b">>, <<"m","a","r">>,
                <<"a","p","r">>, <<"m","a","y">>, <<"j","u","n">>,
                <<"j","u","l">>, <<"a","u","g">>, <<"s","e","p">>,
                <<"o","c","t">>, <<"n","o","v">>, <<"d","e","c">> >>

IsLeap(y) == (y % 4 = 0 /\ y % 100 # 0) \/ y % 400 = 0

DaysInMonth(y, m) ==
  IF m = 2 THEN (IF IsLeap(y) THEN 29 ELSE 28)
  ELSE IF m \in {4, 6, 9, 11} THEN 30 ELSE 31

\* the token up to the first space, and what follows it
RECURSIVE TakeWord(_)
TakeWord(s) ==
  IF Len(s) = 0 \/ s[1] = " " THEN <<>> ELSE <<s[1]>> \o TakeWord(Tail(s))

Pad(n, w) == [i \in 1..w |-> DigitChars[((n \div Pow10(w - i)) % 10) + 1]]

IsoTail == <<"T","0","0",":","0","0",":","0","0","+","0","0",":","0","0">>

\* datetime.strptime(s, "%b %d %Y") followed by
\* .replace(tzinfo=timezone.utc).isoformat()
StrpIso(s) ==
  LET mon == Lower(SubSeq(s, 1, 3))
      r1 == SubSeq(s, 4, Len(s))
      a1 == LStrip(r1)
      dtok == TakeWord(a1)
      r2 == SubSeq(a1, Len(dtok) + 1, Len(a1))
      ytok == LStrip(r2)
      dayOk == /\ Len(dtok) \in {1, 2} /\ AllDigits(dtok)
               /\ ToInt(dtok) \in 1..31
      shape == /\ Len(s) >= 3
               /\ \E m \in 1..12 : MonthAbbr[m] = mon
               /\ Len(r1) > Len(a1)
               /\ dayOk
               /\ Len(r2) > Len(ytok)
               /\ Len(ytok) = 4 /\ AllDigits(ytok)
  IN IF ~shape THEN Raise("ValueError")
     ELSE LET m == CHOOSE m \in 1..12 : MonthAbbr[m] = mon
              d == ToInt(dtok)
              y == ToInt(ytok)
          IN IF y < 1 \/ d > DaysInMonth(y, m) THEN Raise("ValueError")
             ELSE Ok(Str(Pad(y, 4) \o <<"-">> \o Pad(m, 2) \o <<"-">>
                         \o Pad(d, 2) \o IsoTail))

format_date(date_text) ==
  IF ~Truthy(date_text) THEN Ok(Str(<<>>))
  ELSE LET r == StrpIso(Strip(date_text.v))
       IN IF r.raised THEN Ok(date_text) ELSE r

\* variant of amount_format: on a parse failure returns the cleaned text
amount_format_Cleaned(value) ==
  IF ~Truthy(value) THEN Ok(Str(<<>>))
  ELSE LET cleaned == Strip(Remove(Remove(value.v, "$"), ","))
           r == ParseFloat(cleaned)
       IN IF r.raised THEN Ok(Str(cleaned)) ELSE r

amount_format(value) ==
  IF ~Truthy(value) THEN Ok(Str(<<>>))
  ELSE LET r == ParseFloat(Strip(Remove(Remove(value.v, "$"), ",")))
       IN IF r.raised THEN Ok(value) ELSE r

\* getattr(o, a, default)
GetAttr(o, a, default) == IF a \in DOMAIN o.attrs THEN o.attrs[a] ELSE default

get_value(text_value) ==
  IF ~Truthy(text_value) THEN None
  ELSE GetAttr(text_value, "text", GetAttr(text_value, "value", None))

\* ------------------------------------------------------ string literals
N_Items == Str(<<"I","t","e","m","s">>)
N_InvoiceDate == Str(<<"I","n","v","o","i","c","e","D","a","t","e">>)
N_InvoiceTotal == Str(<<"I","n","v","o","i","c","e","T","o","t","a","l">>)
N_SubTotal == Str(<<"S","u","b","T","o","t","a","l">>)
N_ShippingCost == Str(<<"S","h","i","p","p","i","n","g","C","o","s","t">>)
N_Amount == Str(<<"A","m","o","u","n","t">>)
N_UnitPrice == Str(<<"U","n","i","t","P","r","i","c","e">>)
N_AmountDue == Str(<<"A","m","o","u","n","t","D","u","e">>)
N_Quantity == Str(<<"Q","u","a","n","t","i","t","y">>)
N_VendorName == Str(<<"V","e","n","d","o","r","N","a","m","e">>)
N_Description == Str(<<"D","e","s","c","r","i","p","t","i","o","n">>)
APPLICATION_PDF == Str(<<"a","p","p","l","i","c","a","t","i","o","n","/","p","d","f">>)
DOT_PDF == Str(<<".","p","d","f">>)

\* the names extract coerces with amount_format at top level
MoneyFields ==
  {N_InvoiceTotal, N_SubTotal, N_ShippingCost, N_Amount, N_UnitPrice, N_AmountDue}

\* the sub-field names extract coerces with amount_format inside an item
ItemMoneyKeys == {N_Quantity, N_UnitPrice, N_Amount}

INVALID_DOCUMENT ==
  "Invalid document. Please upload a valid PDF invoice with high confidence."
SERVICE_UNAVAILABLE ==
  "The service is currently unavailable. Please try again later."

\* the acceptance threshold 0.9
Threshold == Float(9, 10)

\* a < b on floats
FloatLess(a, b) == a.num * b.den < b.num * a.den

\* ------------------------------------------------- provider response tree
Label(name, confidence) == Obj([name |-> name, confidence |-> confidence])
Field(label, value) == Obj([field_label |-> label, field_value |-> value])
TextVal(s) == Obj([text |-> s])
ValueVal(s) == Obj([value |-> s])
ItemsVal(l) == Obj([items |-> l])
Page(fields) == Obj([document_fields |-> fields])
DocType(confidence) == Obj([confidence |-> confidence])
Response(pages, types) ==
  Obj([pages |-> pages, detected_document_types |-> types])

\* o.a : AttributeError when o is None or has no attribute a
Attr(o, a) ==
  IF o.t # "obj" \/ a \notin DOMAIN o.attrs THEN Raise("AttributeError")
  ELSE Ok(o.attrs[a])

\* iter(x) : TypeError unless x is a list
Iter(x) == IF x.t = "list" THEN Ok(x.v) ELSE Raise("TypeError")

\* --------------------------------------------------- line-item rebuilding
\* one pass of the inner loop over sub_field.field_value.items
RECURSIVE InnerLoop(_, _, _)
InnerLoop(subs, i, single_item) ==
  IF i > Len(subs) THEN single_item
  ELSE
    LET sub == subs[i]
        lab == sub.attrs.field_label
        sub_key == IF Truthy(lab) THEN lab.attrs.name ELSE None
        raw == get_value(sub.attrs.field_value)
        sub_value == IF sub_key \in ItemMoneyKeys
                     THEN amount_format(raw).val ELSE raw
    IN InnerLoop(subs, i + 1, DictSet(single_item, sub_key, sub_value))

\* the outer loop over field.field_value.items, from item i on
RECURSIVE OuterLoop(_, _, _)
OuterLoop(items, i, extracted) ==
  IF i > Len(items) THEN Ok(extracted)
  ELSE
    LET a == Attr(items[i].attrs.field_value, "items")
        it == IF a.raised THEN a ELSE Iter(a.val)
    IN IF it.raised THEN it
       ELSE OuterLoop(items, i + 1,
                      Append(extracted, InnerLoop(it.val, 1, EmptyDict)))

\* the "HANDLE ITEMS" block: the rebuilt extracted_items, or the exception
HandleItems(field_value) ==
  LET a == Attr(field_value, "items")
      it == IF a.raised THEN a ELSE Iter(a.val)
  IN IF it.raised THEN it ELSE OuterLoop(it.val, 1, <<>>)

\* the name the walk files a field under
FieldName(field) ==
  LET lab == field.attrs.field_label
  IN IF Truthy(lab) /\ Truthy(lab.attrs.name) THEN lab.attrs.name ELSE None

\* the scalar value of a field after date / money coercion
FieldValue(field) ==
  LET field_name == FieldName(field)
      v0 == get_value(field.attrs.field_value)
      v1 == IF field_name = N_InvoiceDate THEN format_date(v0).val ELSE v0
  IN IF field_name \in MoneyFields THEN amount_format(v1).val ELSE v1

FieldConfidence(field) ==
  LET lab == field.attrs.field_label
  IN IF Truthy(lab) /\ lab.attrs.confidence # None
     THEN lab.attrs.confidence ELSE Float(0, 1)

\* variant of FieldStep: a name already filed is not overwritten
FieldStep_FirstWins(field, d, dc, items) ==
  LET field_name == FieldName(field)
      rebuilt == IF field_name = N_Items
                 THEN HandleItems(field.attrs.field_value) ELSE Ok(items)
      fresh == field_name \notin DOMAIN d
  IN IF rebuilt.raised THEN rebuilt
     ELSE Ok([data |-> IF ~fresh THEN d
                       ELSE DictSet(d, field_name,
                              IF field_name = N_Items THEN List(rebuilt.val)
                              ELSE FieldValue(field)),
              data_confidence |->
                 IF fresh /\ field_name # N_Items
                 THEN DictSet(dc, field_name, FieldConfidence(field)) ELSE dc,
              extracted_items |-> rebuilt.val])

\* variant of FieldStep: extracted_items is not reset for a new "Items" field
FieldStep_Accumulate(field, d, dc, items) ==
  LET field_name == FieldName(field)
      a == Attr(field.attrs.field_value, "items")
      it == IF a.raised THEN a ELSE Iter(a.val)
      rebuilt == IF field_name = N_Items
                 THEN (IF it.raised THEN it ELSE OuterLoop(it.val, 1, items))
                 ELSE Ok(items)
  IN IF rebuilt.raised THEN rebuilt
     ELSE Ok([data |-> DictSet(d, field_name,
                        IF field_name = N_Items THEN List(rebuilt.val)
                        ELSE FieldValue(field)),
              data_confidence |->
                 IF field_name # N_Items
                 THEN DictSet(dc, field_name, FieldConfidence(field)) ELSE dc,
              extracted_items |-> rebuilt.val])

\* the body of the loop over page.document_fields for one field
FieldStep(field, d, dc, items) ==
  LET field_name == FieldName(field)
      rebuilt == IF field_name = N_Items
                 THEN HandleItems(field.attrs.field_value) ELSE Ok(items)
  IN IF rebuilt.raised THEN rebuilt
     ELSE Ok([data |-> DictSet(d, field_name,
                        IF field_name = N_Items THEN List(rebuilt.val)
                        ELSE FieldValue(field)),
              data_confidence |->
                 IF field_name # N_Items
                 THEN DictSet(dc, field_name, FieldConfidence(field)) ELSE dc,
              extracted_items |-> rebuilt.val])

\* variant of TypesLoop: the threshold test runs once, after the loop
RECURSIVE TypesLoop_LastOnly(_, _, _)
TypesLoop_LastOnly(types, i, cf) ==
  IF i > Len(types)
  THEN (IF FloatLess(cf, Threshold) THEN Raise("HTTPException") ELSE Ok(cf))
  ELSE TypesLoop_LastOnly(types, i + 1, types[i].attrs.confidence)

\* the loop over detected_document_types from record i on
RECURSIVE TypesLoop(_, _, _)
TypesLoop(types, i, cf) ==
  IF i > Len(types) THEN Ok(cf)
  ELSE IF FloatLess(types[i].attrs.confidence, Threshold)
       THEN Raise("HTTPException")
       ELSE TypesLoop(types, i + 1, types[i].attrs.confidence)

\* ------------------------------------------------------------------ state
VARIABLES
  pc,               \* position in extract
  file,             \* the uploaded file of the request
  response,         \* what analyze_document returned
  pi, fi,           \* page and field the walk is at
  data, data_confidence, extracted_items,
  confidence_file,  \* local of extract, unbound until the types loop sets it
  result,
  outcome,          \* how the request ended
  saved,            \* the arguments save_inv_extraction was called with
  provider_calls,   \* number of analyze_document calls
  fn, arg, ret      \* a helper call: function, argument, returned value

vars == <<pc, file, response, pi, fi, data, data_confidence, extracted_items,
          confidence_file, result, outcome, saved, provider_calls,
          fn, arg, ret>>

handlerVars == <<pc, file, response, pi, fi, data, data_confidence,
                 extracted_items, confidence_file, result, outcome, saved,
                 provider_calls>>
walkVars == <<pi, fi, data, data_confidence, extracted_items>>
helperVars == <<fn, arg, ret>>

Unbound == [t |-> "unbound"]
Pending == [kind |-> "pending"]
HTTPException(status_code, detail) ==
  [kind |-> "HTTPException", status_code |-> status_code, detail |-> detail]
Unhandled(exc) == [kind |-> "exception", exc |-> exc]
Returned(body) == [kind |-> "return", body |-> body]

Init ==
  /\ pc = "idle"
  /\ file = None
  /\ response = None
  /\ pi = 1 /\ fi = 1
  /\ data = EmptyDict
  /\ data_confidence = EmptyDict
  /\ extracted_items = <<>>
  /\ confidence_file = Unbound
  /\ result = None
  /\ outcome = Pending
  /\ saved = <<>>
  /\ provider_calls = 0
  /\ fn = "none" /\ arg = None /\ ret = None

\* ---------------------------------------------------------------- extract
\* POST /extract arrives with an uploaded file
Receive(Files) ==
  /\ pc = "idle"
  /\ \E f \in Files : file' = f
  /\ pc' = "pdf_validation"
  /\ UNCHANGED <<response, walkVars, confidence_file, result, outcome, saved,
                 provider_calls, helperVars>>

\* variant of IsPdf: the filename is not lower-cased
IsPdf_CaseSensitive(f) ==
  \/ f.attrs.content_type = APPLICATION_PDF
  \/ EndsWith(f.attrs.filename.v, DOT_PDF.v)

\* pdf_type or pdf_filename
IsPdf(f) ==
  \/ f.attrs.content_type = APPLICATION_PDF
  \/ EndsWith(Lower(f.attrs.filename.v), DOT_PDF.v)

PdfValidation ==
  /\ pc = "pdf_validation"
  /\ IF ~IsPdf(file)
     THEN /\ outcome' = HTTPException(400, INVALID_DOCUMENT)
          /\ pc' = "done"
     ELSE /\ pc' = "call_oci"
          /\ UNCHANGED outcome
  /\ UNCHANGED <<file, response, walkVars, confidence_file, result, saved,
                 provider_calls, helperVars>>

\* variant of CallOci: only the provider's own ServiceError is caught
CallOci_Narrow(Provider) ==
  /\ pc = "call_oci"
  /\ provider_calls' = provider_calls + 1
  /\ \E r \in Provider :
       IF r.raised
       THEN /\ outcome' = IF r.exc = "ServiceError"
                          THEN HTTPException(503, SERVICE_UNAVAILABLE)
                          ELSE Unhandled(r.exc)
            /\ pc' = "done"
            /\ UNCHANGED response
       ELSE /\ response' = r.val
            /\ pc' = "parse_pages"
            /\ UNCHANGED outcome
  /\ UNCHANGED <<file, walkVars, confidence_file, result, saved, helperVars>>

\* doc_client.analyze_document(request) inside try / except Exception
CallOci(Provider) ==
  /\ pc = "call_oci"
  /\ provider_calls' = provider_calls + 1
  /\ \E r \in Provider :
       IF r.raised
       THEN /\ outcome' = HTTPException(503, SERVICE_UNAVAILABLE)
            /\ pc' = "done"
            /\ UNCHANGED response
       ELSE /\ response' = r.val
            /\ pc' = "parse_pages"
            /\ UNCHANGED outcome
  /\ UNCHANGED <<file, walkVars, confidence_file, result, saved, helperVars>>

Pages == response.attrs.pages.v
PageFields(p) == Pages[p].attrs.document_fields

\* for page in response.data.pages: a page without fields, or past its last
NextPage ==
  /\ pc = "parse_pages"
  /\ pi <= Len(Pages)
  /\ IF Truthy(PageFields(pi)) THEN fi > Len(PageFields(pi).v) ELSE TRUE
  /\ pi' = pi + 1 /\ fi' = 1
  /\ UNCHANGED <<pc, file, response, data, data_confidence, extracted_items,
                 confidence_file, result, outcome, saved, provider_calls,
                 helperVars>>

\* for field in page.document_fields: one pass of the loop body
ParseField ==
  /\ pc = "parse_pages"
  /\ pi <= Len(Pages)
  /\ IF Truthy(PageFields(pi)) THEN fi <= Len(PageFields(pi).v) ELSE FALSE
  /\ LET r == FieldStep(PageFields(pi).v[fi], data, data_confidence,
                        extracted_items)
     IN IF r.raised
        THEN /\ outcome' = Unhandled(r.exc)
             /\ pc' = "done"
             /\ UNCHANGED walkVars
        ELSE /\ data' = r.val.data
             /\ data_confidence' = r.val.data_confidence
             /\ extracted_items' = r.val.extracted_items
             /\ fi' = fi + 1
             /\ UNCHANGED <<pc, pi, outcome>>
  /\ UNCHANGED <<file, response, confidence_file, result, saved,
                 provider_calls, helperVars>>

\* the loop over the pages is exhausted
EndPages ==
  /\ pc = "parse_pages"
  /\ pi > Len(Pages)
  /\ pc' = "document_validation"
  /\ UNCHANGED <<file, response, walkVars, confidence_file, result, outcome,
                 saved, provider_calls, helperVars>>

\* variant of DocumentValidation: the error carries the computed fields
DocumentValidation_Leak ==
  /\ pc = "document_validation"
  /\ LET types == response.attrs.detected_document_types
         r == IF Truthy(types) THEN TypesLoop(types.v, 1, confidence_file)
              ELSE Ok(confidence_file)
     IN IF r.raised
        THEN /\ outcome' = [kind |-> "HTTPException", status_code |-> 400,
                            detail |-> INVALID_DOCUMENT, data |-> data]
             /\ pc' = "done"
             /\ UNCHANGED confidence_file
        ELSE /\ confidence_file' = r.val
             /\ pc' = "final_response"
             /\ UNCHANGED outcome
  /\ UNCHANGED <<file, response, walkVars, result, saved, provider_calls,
                 helperVars>>

\* variant of DocumentValidation: the record is stored before the types loop
DocumentValidation_SaveFirst ==
  /\ pc = "document_validation"
  /\ saved' = Append(saved, [confidence |-> None, data |-> data,
                             dataConfidence |-> data_confidence])
  /\ LET types == response.attrs.detected_document_types
         r == IF Truthy(types) THEN TypesLoop(types.v, 1, confidence_file)
              ELSE Ok(confidence_file)
     IN IF r.raised
        THEN /\ outcome' = HTTPException(400, INVALID_DOCUMENT)
             /\ pc' = "done"
             /\ UNCHANGED confidence_file
        ELSE /\ confidence_file' = r.val
             /\ pc' = "final_response"
             /\ UNCHANGED outcome
  /\ UNCHANGED <<file, response, walkVars, result, provider_calls,
                 helperVars>>

\* if response.data.detected_document_types: for doc_type in ...: raise
DocumentValidation ==
  /\ pc = "document_validation"
  /\ LET types == response.attrs.detected_document_types
         r == IF Truthy(types) THEN TypesLoop(types.v, 1, confidence_file)
              ELSE Ok(confidence_file)
     IN IF r.raised
        THEN /\ outcome' = HTTPException(400, INVALID_DOCUMENT)
             /\ pc' = "done"
             /\ UNCHANGED confidence_file
        ELSE /\ confidence_file' = r.val
             /\ pc' = "final_response"
             /\ UNCHANGED outcome
  /\ UNCHANGED <<file, response, walkVars, result, saved, provider_calls,
                 helperVars>>

\* result = {"confidence": confidence_file, "data": ..., "dataConfidence": ...}
FinalResponse ==
  /\ pc = "final_response"
  /\ IF confidence_file = Unbound
     THEN /\ outcome' = Unhandled("UnboundLocalError")
          /\ pc' = "done"
          /\ UNCHANGED result
     ELSE /\ result' = [confidence |-> confidence_file, data |-> data,
                        dataConfidence |-> data_confidence]
          /\ pc' = "save"
          /\ UNCHANGED outcome
  /\ UNCHANGED <<file, response, walkVars, confidence_file, saved,
                 provider_calls, helperVars>>

\* save_inv_extraction(result)
Save ==
  /\ pc = "save"
  /\ saved' = Append(saved, result)
  /\ pc' = "return"
  /\ UNCHANGED <<file, response, walkVars, confidence_file, result, outcome,
                 provider_calls, helperVars>>

\* return result
Return ==
  /\ pc = "return"
  /\ outcome' = Returned(result)
  /\ pc' = "done"
  /\ UNCHANGED <<file, response, walkVars, confidence_file, result, saved,
                 provider_calls, helperVars>>

\* ------------------------------------------------------- helper calls
ApplyFormatDate ==
  /\ fn = "none"
  /\ fn' = "format_date"
  /\ ret' = format_date(arg)
  /\ UNCHANGED <<arg, handlerVars>>

ApplyAmountFormat ==
  /\ fn = "none"
  /\ fn' = "amount_format"
  /\ ret' = amount_format(arg)
  /\ UNCHANGED <<arg, handlerVars>>

\* ------------------------------------------------------- input universes
SeqsUpTo(S, n) == UNION {[1..k -> S] : k \in 0..n}

T_A == Str(<<"A">>)
T_B == Str(<<"B">>)
T_Two == Str(<<"2">>)
T_Money == Str(<<"$","5">>)
T_BadMoney == Str(<<"N","/","A">>)
T_Date == Str(<<"M","a","r"," ","0","6"," ","2","0","1","2">>)
T_BadDate == Str(<<"n","o">>)
T_Empty == Str(<<>>)

C50 == Float(5, 10)
C80 == Float(8, 10)
C89 == Float(89, 100)
C90 == Float(9, 10)
C95 == Float(95, 100)

\* scalar field nodes: every combination of absence the walk tolerates
F_Bare == Field(None, None)
F_EmptyName == Field(Label(T_Empty, C50), ValueVal(T_B))
F_NoName == Field(Label(None, C80), TextVal(None))
F_Vendor == Field(Label(N_VendorName, C90), TextVal(T_A))
F_Vendor2 == Field(Label(N_VendorName, None), Obj([text |-> T_B, value |-> T_A]))
F_Total == Field(Label(N_InvoiceTotal, C80), TextVal(T_Money))
F_BadTotal == Field(Label(N_InvoiceTotal, C50), ValueVal(T_BadMoney))
F_Date == Field(Label(N_InvoiceDate, C95), TextVal(T_Date))
F_BadDate == Field(Label(N_InvoiceDate, None), TextVal(T_BadDate))

\* item nodes and "Items" fields
Sub(name, value) == Field(Label(name, C90), value)
I_Row == Field(None, ItemsVal(List(<<Sub(N_Quantity, TextVal(T_Two)),
                                     Sub(N_Amount, TextVal(T_Money))>>)))
I_AllNull == Field(None, ItemsVal(List(<<Field(None, None),
                                         Sub(N_Description, None)>>)))
I_DupKey == Field(None, ItemsVal(List(<<Sub(N_Description, ValueVal(T_A)),
                                        Sub(N_Description, ValueVal(T_B))>>)))
I_NoSubs == Field(None, ItemsVal(List(<<>>)))

F_ItemsEmpty == Field(Label(N_Items, C80), ItemsVal(List(<<>>)))
F_Items2 == Field(Label(N_Items, C90), ItemsVal(List(<<I_Row, I_AllNull>>)))
F_Items3 == Field(Label(N_Items, None),
                  ItemsVal(List(<<I_DupKey, I_NoSubs, I_Row>>)))
F_ItemsNoValue == Field(Label(N_Items, C90), None)
F_ItemsNone == Field(Label(N_Items, C90), ItemsVal(None))
F_ItemsText == Field(Label(N_Items, C90), TextVal(T_A))
F_ItemNoValue == Field(Label(N_Items, C90),
                       ItemsVal(List(<<I_Row, Field(None, None)>>)))
F_ItemSubsNone == Field(Label(N_Items, C90),
                        ItemsVal(List(<<Field(None, ItemsVal(None))>>)))

\* the nodes the walk completes on, and those whose "Items" value is absent
GoodNodes ==
  {F_Bare, F_EmptyName, F_NoName, F_Vendor, F_Vendor2, F_Total, F_BadDate,
   F_ItemsEmpty, F_Items2, F_Items3}

BadNodes ==
  {F_ItemsNoValue, F_ItemsNone, F_ItemsText, F_ItemNoValue, F_ItemSubsNone}

NodeCount(p) ==
  IF Truthy(p.attrs.document_fields) THEN Len(p.attrs.document_fields.v) ELSE 0

RECURSIVE TreeCount(_)
TreeCount(t) == IF t = <<>> THEN 0 ELSE NodeCount(Head(t)) + TreeCount(Tail(t))

\* a page without a field collection, or one holding 1..n field nodes
PagesOf(Nodes, n) ==
  {Page(None)} \cup {Page(List(q)) : q \in SeqsUpTo(Nodes, n) \ {<<>>}}

\* the page sequences of at most np pages holding at most n field nodes
RECURSIVE TreesOf(_, _, _)
TreesOf(Nodes, np, n) ==
  IF np = 0 THEN {<<>>}
  ELSE {<<>>} \cup
       UNION {{<<p>> \o t : t \in TreesOf(Nodes, np - 1, n - NodeCount(p))} :
              p \in PagesOf(Nodes, n)}

\* trees whose last field node is one of BadNodes (nothing after it is read)
BadTrees(np, n) ==
  UNION {{t \o <<Page(List(q \o <<b>>))>> :
            q \in SeqsUpTo(GoodNodes, n - 1 - TreeCount(t)),
            b \in BadNodes} :
         t \in TreesOf(GoodNodes, np - 1, n - 1)}

WalkTrees(np, n) == TreesOf(GoodNodes, np, n) \cup BadTrees(np, n)

\* the spec's end-to-end scenario, an empty document, and one that raises
SampleTrees ==
  {<<>>,
   <<Page(List(<<F_Vendor, F_Date, F_Total, F_Items2>>))>>,
   <<Page(List(<<>>)), Page(List(<<F_BadTotal, F_ItemsNoValue>>))>>}

TypeLists ==
  {None} \cup {List([i \in DOMAIN q |-> DocType(q[i])]) :
                 q \in SeqsUpTo({C80, C89, C90, C95}, MaxTypes)}

ProviderErrors == {"ServiceError", "RequestException", "TimeoutError"}

ProviderOf(Trees, Types) ==
  {Raise(e) : e \in ProviderErrors}
    \cup {Ok(Response(List(t), d)) : t \in Trees, d \in Types}

UploadFile(content_type, filename) ==
  Obj([content_type |-> content_type, filename |-> filename])

ContentTypes ==
  {None, APPLICATION_PDF, Str(<<"t","e","x","t","/","p","l","a","i","n">>), Str(<<"A","p","p","l","i","c","a","t","i","o","n","/","P","D","F">>)}

Filenames ==
  {Str(<<"a",".","p","d","f">>), Str(<<"A",".","P","D","F">>), Str(<<".","P","d","f">>), Str(<<"a",".","t","x","t">>), Str(<<"p","d","f">>), Str(<<>>), Str(<<"a",".","p","d","f"," ">>), Str(<<"a",".","p","d","f","x">>), Str(<<"a","_","p","d","f">>)}

AllFiles == {UploadFile(c, f) : c \in ContentTypes, f \in Filenames}
FewFiles == {UploadFile(APPLICATION_PDF, Str(<<"a",".","t","x","t">>)), UploadFile(None, Str(<<"a",".","t","x","t">>))}

AmountChars == {"$", ",", " ", "-", ".", "0", "1", "5", "x"}

AmountSamples ==
  {Str(<<"$","5","8",".","1","1">>), Str(<<"4",",","2","9","3",".","5","5">>), Str(<<"N","/","A">>), Str(<<" ","1","2"," ">>), Str(<<"$","4",",","2","9","3",".","5","5">>)}

DateTexts ==
  {lead \o mon \o s1 \o day \o s2 \o year \o trail :
     lead \in {<<>>, <<" ">>},
     mon \in {<<"M","a","r">>, <<"f","E","B">>, <<"A","p","r","i","l">>},
     s1 \in {<<>>, <<" ">>, <<" ", " ">>},
     day \in {<<"0","6">>, <<"6">>, <<"2","9">>, <<"3","1">>, <<"0">>,
              <<"3","2">>},
     s2 \in {<<" ">>, <<"-">>},
     year \in {<<"2","0","1","2">>, <<"2","0","1","3">>, <<"1","2">>,
               <<"0","0","0","0">>},
     trail \in {<<>>, <<" ">>, <<"x">>}}

HelperInputs ==
  {None} \cup AmountSamples \cup {Str(<<"n","o","t"," ","a"," ","d","a","t","e">>)}
    \cup {Str(q) : q \in SeqsUpTo(AmountChars, MaxAmountLen)}
    \cup {Str(q) : q \in DateTexts}

\* what analyze_document may do: every classification over the sample trees
SpecProvider == ProviderOf(SampleTrees, TypeLists)

\* what analyze_document may do: every field tree under one classification
WalkProvider ==
  ProviderOf(WalkTrees(MaxPages, MaxNodes), {List(<<DocType(C95)>>)})

\* --------------------------------------------------------- specifications
Walk == NextPage \/ ParseField \/ EndPages
Finish == DocumentValidation \/ FinalResponse \/ Save \/ Return

\* the request handler over every file and every classification
Next ==
  \/ Receive(AllFiles)
  \/ PdfValidation
  \/ CallOci(SpecProvider)
  \/ Walk
  \/ Finish

Spec == Init /\ [][Next]_vars

\* the request handler over every field tree
NextWalk ==
  \/ Receive(FewFiles)
  \/ PdfValidation
  \/ CallOci(WalkProvider)
  \/ Walk
  \/ Finish

SpecWalk == Init /\ [][NextWalk]_vars

\* the helpers over every text
InitHelpers ==
  /\ pc = "idle"
  /\ file = None
  /\ response = None
  /\ pi = 1 /\ fi = 1
  /\ data = EmptyDict
  /\ data_confidence = EmptyDict
  /\ extracted_items = <<>>
  /\ confidence_file = Unbound
  /\ result = None
  /\ outcome = Pending
  /\ saved = <<>>
  /\ provider_calls = 0
  /\ fn = "none" /\ ret = None
  /\ arg \in HelperInputs

NextHelpers == ApplyFormatDate \/ ApplyAmountFormat

SpecHelpers == InitHelpers /\ [][NextHelpers]_vars

\* ------------------------------------------------- vocabulary of the claims
Types ==
  IF response # None /\ Truthy(response.attrs.detected_document_types)
  THEN response.attrs.detected_document_types.v ELSE <<>>

Low(i) == FloatLess(Types[i].attrs.confidence, Threshold)

\* the provider answered and the loop over the pages ran to its end
WalkCompleted == response # None /\ pi > Len(Pages)

\* the request ended in the low-confidence branch of the types loop
Rejected ==
  /\ pc = "done" /\ WalkCompleted
  /\ outcome.kind = "HTTPException"

\* the request got past the types loop
Accepted ==
  /\ WalkCompleted
  /\ \/ pc \in {"final_response", "save", "return"}
     \/ pc = "done" /\ outcome.kind \in {"return", "exception"}

\* the field nodes of the response in page-then-field order
RECURSIVE Flatten(_)
Flatten(pages) ==
  IF pages = <<>> THEN <<>>
  ELSE (IF Truthy(Head(pages).attrs.document_fields)
        THEN Head(pages).attrs.document_fields.v ELSE <<>>)
       \o Flatten(Tail(pages))

Nodes == Flatten(Pages)
Named(k) == {i \in 1..Len(Nodes) : FieldName(Nodes[i]) = k}
LastNamed(k) == Nodes[CHOOSE i \in Named(k) : \A j \in Named(k) : j <= i]

\* ---------------------------------------------------------------- claims

\* C1 (as stated): for a non-empty sequence of detected-document-type
\* records the document is rejected exactly when the LAST record's
\* confidence is below 0.90, and an accepted result carries the last
\* record's confidence.
C1_LastRecordDecides ==
  (Types # <<>> /\ (Rejected \/ Accepted)) =>
     /\ Rejected <=> Low(Len(Types))
     /\ (pc = "done" /\ outcome.kind = "return") =>
           outcome.body.confidence = Types[Len(Types)].attrs.confidence

\* C1 (amended): for a non-empty sequence of detected-document-type records
\* the document is rejected exactly when SOME record's confidence is below
\* 0.90; an accepted result carries the last record's confidence.
C1_AnyRecordDecides ==
  (Types # <<>> /\ (Rejected \/ Accepted)) =>
     /\ Rejected <=> (\E i \in 1..Len(Types) : Low(i))
     /\ (pc = "done" /\ outcome.kind = "return") =>
           outcome.body.confidence = Types[Len(Types)].attrs.confidence

\* the sequence [0.80, 0.95] has been submitted and was rejected
C1_Witness ==
  /\ Rejected
  /\ Len(Types) = 2
  /\ Types[1].attrs.confidence = C80 /\ Types[2].attrs.confidence = C95

\* C2: when the detected-document-types sequence is empty or absent, extract
\* neither rejects nor fails: it returns a result whose confidence is None
\* together with the computed data and dataConfidence.
C2_EmptyTypesReturnNone ==
  (pc = "done" /\ WalkCompleted /\ Types = <<>>) =>
     /\ outcome.kind = "return"
     /\ outcome.body.confidence = None
     /\ outcome.body.data = data
     /\ outcome.body.dataConfidence = data_confidence

\* C3: a document rejected for low classification confidence ends as a 400
\* validation error with the fixed message, and the outcome carries nothing
\* of the computed fields, confidences or line items.
C3_RejectionCarriesNoData ==
  (pc = "done" /\ WalkCompleted /\ (\E i \in 1..Len(Types) : Low(i))) =>
     /\ outcome.kind = "HTTPException"
     /\ outcome.status_code = 400
     /\ outcome.detail = INVALID_DOCUMENT
     /\ DOMAIN outcome = {"kind", "status_code", "detail"}

\* a rejected document whose fields and line items had been computed
C3_Witness ==
  /\ Rejected
  /\ N_Items \in DOMAIN data /\ Len(data[N_Items].v) = 2
  /\ DOMAIN data_confidence # {}

\* the last four characters are ".pdf" in any letter case
C4_PdfSuffix(name) ==
  /\ Len(name) >= 4
  /\ name[Len(name) - 3] = "."
  /\ name[Len(name) - 2] \in {"p", "P"}
  /\ name[Len(name) - 1] \in {"d", "D"}
  /\ name[Len(name)] \in {"f", "F"}

C4_PdfLike ==
  \/ file.attrs.content_type = APPLICATION_PDF
  \/ C4_PdfSuffix(file.attrs.filename.v)

\* C4: a file with neither content type "application/pdf" nor a filename
\* ending in ".pdf" (case-insensitively) ends in a validation error without
\* any provider call; a file with at least one of the two passes the check
\* and goes on to the provider call.
C4_FileTypeGate ==
  (pc \notin {"idle", "pdf_validation"}) =>
     IF C4_PdfLike
     THEN (pc = "call_oci" /\ provider_calls = 0) \/ provider_calls = 1
     ELSE /\ pc = "done"
          /\ outcome = HTTPException(400, INVALID_DOCUMENT)
          /\ provider_calls = 0
          /\ response = None

\* an upper-case ".PDF" name with a foreign content type reached the provider
C4_Witness ==
  /\ pc # "idle"
  /\ file.attrs.content_type # APPLICATION_PDF
  /\ file.attrs.filename = Str(<<"A",".","P","D","F">>)
  /\ provider_calls = 1

\* analyze_document was called and raised
ProviderFailed == provider_calls = 1 /\ response = None

\* C5: when the provider call raises, extract ends as a 503 with the fixed
\* service-unavailable message: the exception is not propagated, nothing is
\* normalized and no result is built, saved or returned.
C5_ProviderFailureIs503 ==
  ProviderFailed =>
     /\ pc = "done"
     /\ outcome = HTTPException(503, SERVICE_UNAVAILABLE)
     /\ data = EmptyDict /\ data_confidence = EmptyDict
     /\ result = None /\ saved = <<>>

C5_Witness == ProviderFailed /\ pc = "done"

\* C6 (as stated): whatever is absent in the raw field tree - a label, a
\* name, a confidence, a value, the value object of an "Items" field, its
\* item collection, an item's value or its sub-field collection - the field
\* walk of extract runs to its end and never raises.
C6_WalkNeverRaises ==
  (pc = "done" /\ response # None) => WalkCompleted

\* the confidence the walk is to file for a node
C7_Confidence(node) ==
  IF node.attrs.field_label = None THEN Float(0, 1)
  ELSE IF node.attrs.field_label.attrs.confidence = None THEN Float(0, 1)
       ELSE node.attrs.field_label.attrs.confidence

\* C7: after the field walk the keys of dataConfidence are the keys of data
\* without "Items", and under every such key (the null key included) value
\* and confidence are those of the last field node of that name in
\* page-then-field order, the confidence being 0.0 when the label or its
\* confidence is missing.
C7_LastNodeWins ==
  WalkCompleted =>
     /\ DOMAIN data = {FieldName(Nodes[i]) : i \in 1..Len(Nodes)}
     /\ DOMAIN data_confidence = (DOMAIN data) \ {N_Items}
     /\ \A k \in DOMAIN data_confidence :
          /\ data[k] = FieldValue(LastNamed(k))
          /\ data_confidence[k] = C7_Confidence(LastNamed(k))

\* two nodes of one name on different pages, the later one without confidence
C7_Witness ==
  /\ WalkCompleted
  /\ Len(Pages) = 2
  /\ Nodes = <<F_Vendor, F_Vendor2>>
  /\ data[N_VendorName] = T_B
  /\ data_confidence[N_VendorName] = Float(0, 1)

C8_SubKey(sub) ==
  IF sub.attrs.field_label = None THEN None
  ELSE sub.attrs.field_label.attrs.name

C8_SubValue(sub) ==
  IF C8_SubKey(sub) \in ItemMoneyKeys
  THEN amount_format(get_value(sub.attrs.field_value)).val
  ELSE get_value(sub.attrs.field_value)

\* C8: after the field walk data["Items"] is the list rebuilt from the last
\* "Items" field node alone: one entry per item node, in order, none
\* filtered out, each entry with at most as many keys as the item has
\* sub-fields, each key holding the value of the item's last sub-field of
\* that name.
C8_ItemsFromLastField ==
  (WalkCompleted /\ Named(N_Items) # {}) =>
     LET items == LastNamed(N_Items).attrs.field_value.attrs.items.v
         rows == data[N_Items]
     IN /\ rows.t = "list"
        /\ Len(rows.v) = Len(items)
        /\ \A i \in 1..Len(items) :
             LET subs == items[i].attrs.field_value.attrs.items.v
                 keyed(k) == {j \in 1..Len(subs) : C8_SubKey(subs[j]) = k}
             IN /\ Cardinality(DOMAIN rows.v[i]) <= Len(subs)
                /\ DOMAIN rows.v[i] =
                     {C8_SubKey(subs[j]) : j \in 1..Len(subs)}
                /\ \A k \in DOMAIN rows.v[i] :
                     rows.v[i][k] =
                       C8_SubValue(subs[CHOOSE j \in keyed(k) :
                                          \A m \in keyed(k) : m <= j])

\* two "Items" fields in one document, the later with an all-null item
C8_Witness ==
  /\ WalkCompleted
  /\ Nodes = <<F_Items3, F_Items2>>
  /\ Len(data[N_Items].v) = 2
  /\ \A k \in DOMAIN data[N_Items].v[2] : data[N_Items].v[2][k] = None

\* the characters float() can accept once "$" and "," are removed
C9_NumericChars ==
  {"$", ",", " ", "-", "+", ".", "0", "1", "2", "3", "4", "5", "6", "7",
   "8", "9"}

C9_IsoShaped(v) ==
  /\ v.t = "str" /\ Len(v.v) = 25
  /\ v.v[5] = "-" /\ v.v[8] = "-"
  /\ SubSeq(v.v, 11, 25) = IsoTail

\* C9: format_date and amount_format never raise; each returns the empty
\* string for empty or null input, a converted value (a float, an ISO-8601
\* midnight UTC timestamp) when the text parses, and otherwise the input
\* itself, untrimmed and unstripped.
C9_CoercionNeverRaises ==
  (fn # "none") =>
     /\ ~ret.raised
     /\ ~Truthy(arg) => ret.val = Str(<<>>)
     /\ Truthy(arg) =>
          \/ ret.val = arg
          \/ fn = "amount_format" /\ ret.val.t = "float"
          \/ fn = "format_date" /\ C9_IsoShaped(ret.val)
     /\ (fn = "amount_format" /\ Truthy(arg)
           /\ \E i \in 1..Len(arg.v) : arg.v[i] \notin C9_NumericChars)
          => ret.val = arg
     /\ (fn = "amount_format" /\ arg = Str(<<"$","4",",","2","9","3",".","5","5">>))
          => ret.val = Float(429355, 100)
     /\ (fn = "amount_format" /\ arg = Str(<<" ","1","2"," ">>)) => ret.val = Float(12, 1)
     /\ (fn = "format_date" /\ arg = Str(<<"M","a","r"," ","0","6"," ","2","0","1","2">>))
          => ret.val = Str(<<"2","0","1","2","-","0","3","-","0","6","T","0","0",":","0","0",":","0","0","+","0","0",":","0","0">>)
     /\ (fn = "format_date" /\ arg = Str(<<"n","o","t"," ","a"," ","d","a","t","e">>)) => ret.val = arg
     /\ (fn = "format_date" /\ arg = Str(<<" ","f","E","B"," "," ","2","9"," ","2","0","1","3"," ">>)) => ret.val = arg

\* an unparseable amount whose cleaned form differs from the input
C9_Witness ==
  /\ fn = "amount_format"
  /\ arg = Str(<<"$","x"," ">>)
  /\ ret.val = arg

\* C10: save_inv_extraction is called at most once per request, only after
\* the file-type check, the provider call and the acceptance check have
\* passed, with exactly the result that is then returned; a request that
\* ends in an error has stored nothing.
C10_SaveOnlyWhatIsReturned ==
  /\ Len(saved) <= 1
  /\ Len(saved) = 1 =>
       /\ C4_PdfLike
       /\ provider_calls = 1
       /\ WalkCompleted
       /\ \A i \in 1..Len(Types) : ~Low(i)
       /\ pc \in {"return", "done"}
       /\ saved[1] = result
  /\ (pc = "done" /\ outcome.kind = "return") => saved = <<outcome.body>>
  /\ (pc = "done" /\ outcome.kind # "return") => saved = <<>>

\* an accepted document was stored once and returned
C10_Witness ==
  /\ pc = "done" /\ outcome.kind = "return"
  /\ Len(saved) = 1
  /\ N_Items \in DOMAIN saved[1].data

====
